---- MODULE Spec2Model ----
(***************************************************************************)
(* Chunked snapshot transfer: the restore client                           *)
(* (internal/cli/snapshot_restore.go, SnapshotRestoreCommand.Run) and the  *)
(* transfer server it talks to.  The server's implementation is not part   *)
(* of the sources at hand; its state machine is taken from the             *)
(* specification (sections 4.2 and 5).                                     *)
(***************************************************************************)
EXTENDS Integers, Sequences, FiniteSets, TLC

(* ------------------------------ bounds --------------------------------- *)
\* Size of the client's frame buffer.  The source declares `var buf
\* [1024]byte`; the model keeps the buffer as a bounded array and every
\* statement about the frame size is made relative to BufSize.
BufSize == 3
\* How many source reads may fail with an I/O error in one Run.
MaxReadErrs == 2
\* Number of server sessions in the server-only specification.
NumSessions == 2
\* Total number of events the test harness may inject (server-only spec).
MaxEvents == 6

\* Longest source: two full frames and one extra byte.
MaxLen == 2 * BufSize + 1

(* ------------------------------ data ----------------------------------- *)
\* The source delivers a known byte pattern (sequential integers), so that
\* any gap, duplication or reordering changes the byte sequence.
Byte(i) == i % 256

\* The first k bytes of the source.
SourceBytes(k) == [i \in 1..k |-> Byte(i)]

Min(a, b) == IF a < b THEN a ELSE b

Sessions == 1..NumSessions
\* The session the restore client drives.
ClientSession == 1

\* Persisted server state before any restore.
PriorState == <<200, 201>>

OpenEv == [type |-> "Open", data |-> <<>>]
ChunkEv(d) == [type |-> "Chunk", data |-> d]
HalfCloseEv == [type |-> "HalfClose", data |-> <<>>]

\* Command lines: no argument, '-' and a path.
ArgSets == {<<>>, <<"-">>, <<"snap.db">>}

VARIABLES
    \* ---- client (SnapshotRestoreCommand.Run) ----
    pc,            \* position of Run
    args,          \* command-line arguments
    stdinTerminal, \* sshterm.IsTerminal(stdin)
    r,             \* selected reader: "nil", "stdin", "file"
    closer,        \* "nil" or "file"
    closes,        \* number of closer.Close() calls
    srcLen,        \* number of bytes the source holds
    pos,           \* bytes the source has delivered so far
    buf,           \* var buf [BufSize]byte
    n,             \* bytes ReadFull has placed in buf in the current call
    readErrs,      \* source reads that failed with an error other than EOF
    opens,         \* client.RestoreSnapshot calls that returned a stream
    chanFail,      \* a channel operation (open, send, close, recv) has failed
    sendFail,      \* opening the channel or a send failed before half-close
    result,        \* "none", "ok", "err": what CloseAndRecv returned
    results,       \* terminal Results of the server the client has received
    stdout,        \* ui.Output messages
    stderr,        \* messages written to os.Stderr
    ret,           \* return value of Run; -1 while running
    inflight,      \* stream.Send(Chunk) calls that have not returned yet
    iters,         \* iterations of the chunk loop (returns of io.ReadFull)
    \* ---- channel ----
    chan,          \* chan[s]: events sent on session s, in send order
    conn,          \* conn[s]: "none", "open", "closed"
    \* ---- server ----
    phase,         \* phase[s]: Idle, Opened, Receiving, Applying, Done
    outcome,       \* outcome[s]: "none", "success", "error"
    errKind,       \* errKind[s]: "none", "protocol", "aborted", "apply"
    sbuf,          \* sbuf[s]: bytes accumulated for session s
    rcv,           \* rcv[s]: events of chan[s] the server has consumed
    lock,          \* session holding the commit lock, 0 when free
    staging,       \* the temporary location the new state is staged to
    persisted,     \* the server's persisted state
    applied,       \* applied[s]: session s has committed its payload
    \* ---- deployment configuration (DeploymentConfig.Env) ----
    cfg,           \* the DeploymentConfig value c
    env,           \* the map the last c.Env() returned, as (key, value) pairs
    envCfg,        \* the configuration the last c.Env() was called on
    envCalled      \* c.Env() has been called

clientVars == <<pc, args, stdinTerminal, r, closer, closes, srcLen, pos, buf,
                n, readErrs, opens, chanFail, sendFail, result, results,
                stdout, stderr, ret, inflight, iters>>
chanVars == <<chan, conn>>
serverVars == <<phase, outcome, errKind, sbuf, rcv, lock, staging, persisted,
                applied>>
envVars == <<cfg, env, envCfg, envCalled>>
vars == <<clientVars, chanVars, serverVars, envVars>>

(* --------------------------- initial states ---------------------------- *)
ServerInit ==
    /\ phase = [s \in Sessions |-> "Idle"]
    /\ outcome = [s \in Sessions |-> "none"]
    /\ errKind = [s \in Sessions |-> "none"]
    /\ sbuf = [s \in Sessions |-> <<>>]
    /\ rcv = [s \in Sessions |-> 0]
    /\ lock = 0
    /\ staging = <<>>
    /\ persisted = PriorState
    /\ applied = [s \in Sessions |-> FALSE]

ClientInit ==
    /\ pc = "init"
    /\ args \in ArgSets
    /\ stdinTerminal \in BOOLEAN
    /\ r = "nil"
    /\ closer = "nil"
    /\ closes = 0
    /\ srcLen = 0
    /\ pos = 0
    /\ buf = [i \in 1..BufSize |-> 0]
    /\ n = 0
    /\ readErrs = 0
    /\ opens = 0
    /\ chanFail = FALSE
    /\ sendFail = FALSE
    /\ result = "none"
    /\ results = 0
    /\ stdout = <<>>
    /\ stderr = <<>>
    /\ ret = -1
    /\ inflight = 0
    /\ iters = 0

\* No deployment is being configured: the zero DeploymentConfig.
EnvIdle ==
    /\ cfg = [Id |-> "", ServerAddr |-> "", ServerInsecure |-> FALSE]
    /\ env = {}
    /\ envCfg = cfg
    /\ envCalled = FALSE

Init ==
    /\ ClientInit
    /\ EnvIdle
    /\ chan = [s \in Sessions |-> <<>>]
    /\ conn = [s \in Sessions |-> "none"]
    /\ ServerInit

(* ------------------------------ client --------------------------------- *)
\* Variant of Return: no deferred Close was registered.
ReturnWithoutClose(code) ==
    /\ pc' = "done"
    /\ ret' = code
    /\ closes' = closes
    /\ conn' = [conn EXCEPT ![ClientSession] =
                    IF @ = "open" THEN "closed" ELSE @]

\* A return statement of Run: the deferred closer.Close() runs, and the
\* stream of the returning command goes away with it.
Return(code) ==
    /\ pc' = "done"
    /\ ret' = code
    /\ closes' = IF closer # "nil" THEN closes + 1 ELSE closes
    /\ conn' = [conn EXCEPT ![ClientSession] =
                    IF @ = "open" THEN "closed" ELSE @]

\* c.Init(...): on failure Run returns 1.
RunInit ==
    /\ pc = "init"
    /\ \/ /\ pc' = "initReader"
          /\ UNCHANGED <<ret, closes, conn>>
       \/ Return(1)
    /\ UNCHANGED <<args, stdinTerminal, r, closer, srcLen, pos, buf, n,
                   readErrs, opens, chanFail, sendFail, result, results,
                   stdout, stderr, chan, serverVars,
                   inflight, iters, envVars>>

\* Variant of initReader: the terminal check is applied to "-" as well.
initReaderCheckDash(a, isTerminal, openOk) ==
    IF Len(a) >= 1 /\ a[1] # "-"
    THEN IF ~openOk
         THEN [r |-> "nil", closer |-> "nil", err |-> TRUE]
         ELSE [r |-> "file", closer |-> "file", err |-> FALSE]
    ELSE IF isTerminal
         THEN [r |-> "nil", closer |-> "nil", err |-> TRUE]
         ELSE [r |-> "stdin", closer |-> "nil", err |-> FALSE]

\* initReader(args): the reader and closer it selects; "err" when it fails.
\* openOk is the outcome of os.Open(args[0]).
initReader(a, isTerminal, openOk) ==
    IF Len(a) >= 1
    THEN IF a[1] = "-"
         THEN [r |-> "stdin", closer |-> "nil", err |-> FALSE]
         ELSE IF ~openOk
              THEN [r |-> "nil", closer |-> "nil", err |-> TRUE]
              ELSE [r |-> "file", closer |-> "file", err |-> FALSE]
    ELSE IF isTerminal
         THEN [r |-> "nil", closer |-> "nil", err |-> TRUE]
         ELSE [r |-> "stdin", closer |-> "nil", err |-> FALSE]

\* r, closer, err := c.initReader(args) and the error check after it.  The
\* selected source holds any number of bytes up to MaxLen.
RunInitReader ==
    /\ pc = "initReader"
    /\ \E openOk \in BOOLEAN, len \in 0..MaxLen :
         LET res == initReader(args, stdinTerminal, openOk) IN
         IF res.err
         THEN /\ stderr' = Append(stderr, "failed to open output")
              /\ Return(1)
              /\ UNCHANGED <<r, closer, srcLen>>
         ELSE /\ r' = res.r
              /\ closer' = res.closer
              /\ srcLen' = len
              /\ pc' = "openChan"
              /\ UNCHANGED <<stderr, ret, closes, conn>>
    /\ UNCHANGED <<args, stdinTerminal, pos, buf, n, readErrs, opens,
                   chanFail, sendFail, result, results, stdout, chan,
                   serverVars,
                   inflight, iters, envVars>>

\* stream, err := client.RestoreSnapshot(c.Ctx)
OpenChannel ==
    /\ pc = "openChan"
    /\ \/ /\ opens' = opens + 1
          /\ conn' = [conn EXCEPT ![ClientSession] = "open"]
          /\ pc' = "sendOpen"
          /\ UNCHANGED <<ret, closes, stderr, chanFail, sendFail>>
       \/ /\ stderr' = Append(stderr, "failed to restore snapshot")
          /\ chanFail' = TRUE
          /\ sendFail' = TRUE
          /\ Return(1)
          /\ UNCHANGED opens
    /\ UNCHANGED <<args, stdinTerminal, r, closer, srcLen, pos, buf, n,
                   readErrs, result, results, stdout, chan, serverVars,
                   inflight, iters, envVars>>

\* stream.Send(Open)
SendOpen ==
    /\ pc = "sendOpen"
    /\ \/ /\ chan' = [chan EXCEPT ![ClientSession] = Append(@, OpenEv)]
          /\ pc' = "readFull"
          /\ UNCHANGED <<ret, closes, conn, stderr, chanFail, sendFail>>
       \/ /\ stderr' = Append(stderr, "failed to send start message")
          /\ chanFail' = TRUE
          /\ sendFail' = TRUE
          /\ Return(1)
          /\ UNCHANGED chan
    /\ UNCHANGED <<args, stdinTerminal, r, closer, srcLen, pos, buf, n,
                   readErrs, opens, result, results, stdout, serverVars,
                   inflight, iters, envVars>>

\* Variant of AfterReadFull: the n == 0 test is missing, every buffer is
\* sent.
AfterReadFullAlwaysSend(cnt, err) == "sendChunk"

\* Variant of AfterReadFull: the loop ends on an I/O error only, so the
\* empty buffer of an end-of-input is sent too.
AfterReadFullSendOnEof(cnt, err) ==
    IF cnt = 0 /\ err = "EIO" THEN "closeSend" ELSE "sendChunk"

\* Variant of AfterReadFull: a short read ends the loop without sending the
\* bytes it delivered.
AfterReadFullDropShort(cnt, err) ==
    IF cnt = 0 \/ err # "nil" THEN "closeSend" ELSE "sendChunk"

\* What Run does with the (n, err) that io.ReadFull returned: EOF and
\* ErrUnexpectedEOF are cleared, any other err is left in the variable, and
\* only n decides: n == 0 leaves the loop, otherwise the chunk is sent.
AfterReadFull(cnt, err) ==
    IF cnt = 0 THEN "closeSend" ELSE "sendChunk"

\* Variant of ReadFullReturns: a bare Read, which returns after every
\* underlying read.
ReadFullReturnsAfterOneRead(cnt) == TRUE

\* io.ReadFull returns without an error once the buffer is full; until then
\* it calls Read again.
ReadFullReturns(cnt) == cnt >= BufSize

\* One underlying Read call made by io.ReadFull(r, buf[:]), together with
\* the code that follows when ReadFull returns.  ReadFull keeps calling Read
\* while n < len(buf) and no error was returned.
ReadStep ==
    /\ pc = "readFull"
    /\ \/ \* Read delivers nn >= 1 bytes
          \E nn \in 1..Min(BufSize - n, srcLen - pos) :
            /\ buf' = [i \in 1..BufSize |->
                          IF i > n /\ i <= n + nn
                          THEN Byte(pos + (i - n)) ELSE buf[i]]
            /\ n' = n + nn
            /\ pos' = pos + nn
            /\ pc' = IF ReadFullReturns(n + nn)
                     THEN AfterReadFull(n + nn, "nil") ELSE "readFull"
            /\ iters' = IF ReadFullReturns(n + nn) THEN iters + 1 ELSE iters
            /\ UNCHANGED readErrs
       \/ \* Read returns (0, io.EOF)
          /\ pos = srcLen
          /\ pc' = AfterReadFull(n, IF n > 0 THEN "ErrUnexpectedEOF"
                                             ELSE "EOF")
          /\ iters' = iters + 1
          /\ UNCHANGED <<buf, n, pos, readErrs>>
       \/ \* Read returns (0, err) with an I/O error
          /\ readErrs < MaxReadErrs
          /\ readErrs' = readErrs + 1
          /\ pc' = AfterReadFull(n, "EIO")
          /\ iters' = iters + 1
          /\ UNCHANGED <<buf, n, pos>>
    /\ UNCHANGED <<args, stdinTerminal, r, closer, closes, srcLen, opens,
                   chanFail, sendFail, result, results, stdout, stderr, ret,
                   chanVars, serverVars,
                   inflight, envVars>>

\* Variant of ChunkPayload: the whole buffer is sent, stale bytes included.
ChunkPayloadWholeBuffer(b, cnt) == b

\* The payload of the Chunk event: buf[:n].
ChunkPayload(b, cnt) == SubSeq(b, 1, cnt)

\* Variant of ChunkSendFailed: the error leaves the loop (break) instead of
\* returning, so Run goes on to CloseAndRecv.
ChunkSendFailedBreak ==
    /\ stderr' = Append(stderr, "failed to write snapshot data")
    /\ chanFail' = TRUE
    /\ sendFail' = TRUE
    /\ pc' = "closeSend"
    /\ UNCHANGED <<chan, n, ret, closes, conn>>

\* Variant of ChunkSendFailed: the error is reported but the loop goes on
\* with the next read.
ChunkSendFailedContinue ==
    /\ stderr' = Append(stderr, "failed to write snapshot data")
    /\ chanFail' = TRUE
    /\ sendFail' = TRUE
    /\ pc' = "readFull"
    /\ n' = 0
    /\ UNCHANGED <<chan, ret, closes, conn>>

\* What Run does when stream.Send(Chunk) fails: it returns 1.
ChunkSendFailed ==
    /\ stderr' = Append(stderr, "failed to write snapshot data")
    /\ chanFail' = TRUE
    /\ sendFail' = TRUE
    /\ Return(1)
    /\ UNCHANGED <<chan, n>>

\* Variant of SendChunk: the send is started without waiting for it, and
\* the loop goes on to the next read.
SendChunkAsync ==
    /\ pc = "sendChunk"
    /\ inflight' = inflight + 1
    /\ pc' = "readFull"
    /\ n' = 0
    /\ UNCHANGED <<args, stdinTerminal, r, closer, closes, srcLen, pos, buf,
                   readErrs, opens, chanFail, sendFail, result, results,
                   stdout, stderr, ret, iters, chanVars, serverVars,
                   envVars>>

\* Run calls stream.Send(Chunk{buf[:n]}) and blocks in it: the message
\* refers to the bytes of buf.
SendChunk ==
    /\ pc = "sendChunk"
    /\ inflight' = inflight + 1
    /\ pc' = "sendWait"
    /\ UNCHANGED <<args, stdinTerminal, r, closer, closes, srcLen, pos, buf,
                   n, readErrs, opens, chanFail, sendFail, result, results,
                   stdout, stderr, ret, iters, chanVars, serverVars,
                   envVars>>

\* stream.Send(Chunk) returns: the bytes of buf[:n] have gone out as they
\* are now; on success the loop calls ReadFull again.
SendReturn ==
    /\ pc = "sendWait"
    /\ inflight' = inflight - 1
    /\ \/ /\ chan' = [chan EXCEPT ![ClientSession] =
                         Append(@, ChunkEv(ChunkPayload(buf, n)))]
          /\ n' = 0
          /\ pc' = "readFull"
          /\ UNCHANGED <<ret, closes, conn, stderr, chanFail, sendFail>>
       \/ ChunkSendFailed
    /\ UNCHANGED <<args, stdinTerminal, r, closer, srcLen, pos, buf,
                   readErrs, opens, result, results, stdout, iters,
                   serverVars, envVars>>

\* stream.CloseAndRecv(), first half: the client half-closes the stream.
CloseSend ==
    /\ pc = "closeSend"
    /\ \/ /\ chan' = [chan EXCEPT ![ClientSession] = Append(@, HalfCloseEv)]
          /\ pc' = "recv"
          /\ UNCHANGED <<ret, closes, conn, stderr, chanFail, result>>
       \/ /\ stderr' = Append(stderr,
                              "failed to receive snapshot start message")
          /\ chanFail' = TRUE
          /\ result' = "err"
          /\ Return(1)
          /\ UNCHANGED chan
    /\ UNCHANGED <<args, stdinTerminal, r, closer, srcLen, pos, buf, n,
                   readErrs, opens, sendFail, results, stdout, serverVars,
                   inflight, iters, envVars>>

\* args[i-1] of the code: indexing past the end of the slice panics.
ArgAt(a, i) == IF i <= Len(a) THEN a[i] ELSE "panic: index out of range"

\* Variant of CompletionMessage: decided by the presence of an argument.
CompletionMessageByArgs(reader, a) ==
    IF Len(a) = 0 THEN <<"Server data restored.">>
    ELSE <<"Server data restored from '%s'.", ArgAt(a, 1)>>

\* The completion message of Run (lines 115-119): the format and its
\* operands.
CompletionMessage(reader, a) ==
    IF reader = "stdin" THEN <<"Server data restored.">>
    ELSE <<"Server data restored from '%s'.", ArgAt(a, 1)>>

\* Variant of ResultOk: the error of CloseAndRecv is not looked at.
ResultOkUnchecked(res) == TRUE

\* The error check after CloseAndRecv: err == nil exactly when the server's
\* Result reports success.
ResultOk(res) == res = "success"

\* stream.CloseAndRecv(), second half: block until the server's Result (or
\* a transport failure), then report and return.
Recv ==
    /\ pc = "recv"
    /\ \/ /\ phase[ClientSession] = "Done"
          /\ ResultOk(outcome[ClientSession])
          /\ result' = "ok"
          /\ results' = results + 1
          /\ stdout' = Append(stdout, CompletionMessage(r, args))
          /\ Return(0)
          /\ UNCHANGED <<stderr, chanFail>>
       \/ /\ \/ /\ phase[ClientSession] = "Done"
                /\ ~ResultOk(outcome[ClientSession])
                /\ results' = results + 1
                /\ UNCHANGED chanFail
             \/ /\ chanFail' = TRUE
                /\ UNCHANGED results
          /\ result' = "err"
          /\ stderr' = Append(stderr,
                              "failed to receive snapshot start message")
          /\ Return(1)
          /\ UNCHANGED stdout
    /\ UNCHANGED <<args, stdinTerminal, r, closer, srcLen, pos, buf, n,
                   readErrs, opens, sendFail, chan, serverVars,
                   inflight, iters, envVars>>

ClientNext ==
    \/ RunInit
    \/ RunInitReader
    \/ OpenChannel
    \/ SendOpen
    \/ ReadStep
    \/ SendChunk
    \/ SendReturn
    \/ CloseSend
    \/ Recv

(* ------------------------------ server --------------------------------- *)
\* The session ends: Done(success|error).  The accumulated buffer is
\* discarded and the commit lock is released if the session holds it.
Finish(s, res, kind) ==
    /\ phase' = [phase EXCEPT ![s] = "Done"]
    /\ outcome' = [outcome EXCEPT ![s] = res]
    /\ errKind' = [errKind EXCEPT ![s] = kind]
    /\ sbuf' = [sbuf EXCEPT ![s] = <<>>]
    /\ lock' = IF lock = s THEN 0 ELSE lock
    /\ staging' = IF lock = s THEN <<>> ELSE staging

\* Variant of NextPhase: events are accepted in every phase (a repeated Open
\* is ignored, a Chunk is appended whenever it arrives).
NextPhaseLenient(ph, ev) ==
    CASE ev.type = "Open" -> IF ph = "Idle" THEN "Opened" ELSE ph
      [] ev.type = "Chunk" -> IF ph = "Applying" THEN ph ELSE "Receiving"
      [] ev.type = "HalfClose" /\ ph # "Applying" -> "Applying"
      [] OTHER -> "Reject"

\* The phase a well-ordered event leads to, "Reject" for a protocol
\* violation: Open only when Idle, Chunk and half-close only after Open and
\* before half-close.
NextPhase(ph, ev) ==
    CASE ph = "Idle" /\ ev.type = "Open" -> "Opened"
      [] ph \in {"Opened", "Receiving"} /\ ev.type = "Chunk" -> "Receiving"
      [] ph \in {"Opened", "Receiving"} /\ ev.type = "HalfClose" -> "Applying"
      [] OTHER -> "Reject"

\* Variant of MayBeginApply: no serialisation of the commit point.
MayBeginApplyUnlocked == TRUE

\* Whether a session may enter Applying: the commit point is a single lock.
MayBeginApply == lock = 0

\* The server takes the next event of session s off its channel.  A
\* half-close waits for the commit lock (the session queues behind the one
\* that is Applying).
SrvRecv(s) ==
    /\ phase[s] # "Done"
    /\ rcv[s] < Len(chan[s])
    /\ LET ev == chan[s][rcv[s] + 1]
           np == NextPhase(phase[s], ev)
       IN /\ np = "Applying" => MayBeginApply
          /\ rcv' = [rcv EXCEPT ![s] = @ + 1]
          /\ IF np = "Reject"
             THEN Finish(s, "error", "protocol")
             ELSE /\ phase' = [phase EXCEPT ![s] = np]
                  /\ sbuf' = [sbuf EXCEPT ![s] = @ \o ev.data]
                  /\ lock' = IF np = "Applying" THEN s ELSE lock
                  /\ staging' = IF np = "Applying" THEN <<>> ELSE staging
                  /\ UNCHANGED <<outcome, errKind>>
    /\ UNCHANGED <<persisted, applied, clientVars, chanVars,
                   envVars>>

\* The channel of session s went away before its half-close arrived: the
\* session is incomplete, its data is discarded and nothing is applied.
SrvDisconnect(s) ==
    /\ conn[s] = "closed"
    /\ phase[s] \notin {"Applying", "Done"}
    /\ rcv[s] = Len(chan[s])
    /\ Finish(s, "error", "aborted")
    /\ UNCHANGED <<rcv, persisted, applied, clientVars, chanVars,
                   envVars>>

\* Applying: the next byte of the payload is written to the staging area.
ApplyStage(s) ==
    /\ phase[s] = "Applying"
    /\ Len(staging) < Len(sbuf[s])
    /\ staging' = Append(staging, sbuf[s][Len(staging) + 1])
    /\ UNCHANGED <<phase, outcome, errKind, sbuf, rcv, lock, persisted,
                   applied, clientVars, chanVars,
                   envVars>>

\* Variant of AfterFailure: what was staged so far is left in place.
AfterFailurePartial(old, staged) == staged

\* The persisted state a failed apply leaves behind: the prior state.
AfterFailure(old, staged) == old

\* Applying fails (validation, or an operational failure while staging or
\* swapping): Done(error), the persisted state is not touched.
ApplyFail(s) ==
    /\ phase[s] = "Applying"
    /\ persisted' = AfterFailure(persisted, staging)
    /\ Finish(s, "error", "apply")
    /\ UNCHANGED <<rcv, applied, clientVars, chanVars,
                   envVars>>

\* The state the commit installs.
Committed(old, staged) == staged

\* Applying succeeds: the fully staged, valid payload replaces the persisted
\* state in one step.  An empty payload is never a valid snapshot.
ApplyCommit(s) ==
    /\ phase[s] = "Applying"
    /\ sbuf[s] # <<>>
    /\ Len(staging) = Len(sbuf[s])
    /\ persisted' = Committed(persisted, staging)
    /\ applied' = [applied EXCEPT ![s] = TRUE]
    /\ Finish(s, "success", "none")
    /\ UNCHANGED <<rcv, clientVars, chanVars,
                   envVars>>

ServerNext(s) ==
    \/ SrvRecv(s)
    \/ SrvDisconnect(s)
    \/ ApplyStage(s)
    \/ ApplyFail(s)
    \/ ApplyCommit(s)

(* ------------------------- the restore command ------------------------- *)
Next ==
    \/ ClientNext
    \/ ServerNext(ClientSession)

Spec == Init /\ [][Next]_vars

(* ----------------------- the server under test ------------------------- *)
\* Events sent so far on all sessions.
RECURSIVE TotalEvents(_)
TotalEvents(S) ==
    IF S = {} THEN 0
    ELSE LET s == CHOOSE x \in S : TRUE
         IN Len(chan[s]) + TotalEvents(S \ {s})

\* The bytes of the next Chunk a harness client sends on session s: they
\* name the session and the position, so that payloads of different sessions
\* never share a byte.
HarnessChunk(s) == <<16 * s + Len(chan[s])>>

\* A harness client sends an arbitrary event on session s.
HarnessSend(s) ==
    /\ conn[s] = "open"
    /\ phase[s] # "Done"
    /\ rcv[s] = Len(chan[s])
    /\ TotalEvents(Sessions) < MaxEvents
    /\ \E ev \in {OpenEv, ChunkEv(HarnessChunk(s)), HalfCloseEv} :
          chan' = [chan EXCEPT ![s] = Append(@, ev)]
    /\ UNCHANGED <<conn, clientVars, serverVars, envVars>>

\* The channel of session s is closed or disconnected.
HarnessDisconnect(s) ==
    /\ conn[s] = "open"
    /\ conn' = [conn EXCEPT ![s] = "closed"]
    /\ UNCHANGED <<chan, clientVars, serverVars, envVars>>

ServerTestInit ==
    /\ ClientInit
    /\ args = <<>>
    /\ stdinTerminal = FALSE
    /\ chan = [s \in Sessions |-> <<>>]
    /\ conn = [s \in Sessions |-> "open"]
    /\ ServerInit
    /\ EnvIdle

ServerTestNext ==
    \E s \in Sessions :
        \/ HarnessSend(s)
        \/ HarnessDisconnect(s)
        \/ ServerNext(s)

ServerSpec == ServerTestInit /\ [][ServerTestNext]_vars

(* ----------------------- DeploymentConfig.Env -------------------------- *)
\* Values of the fields of a DeploymentConfig.
Ids == {"", "dep-1", "dep-2", "dep-3"}
Addrs == {"", "localhost:9701", "10.0.0.1:9701", "server.example:443"}
Configs == [Id : Ids, ServerAddr : Addrs, ServerInsecure : BOOLEAN]

\* results[k] = v on a Go map, held as a set of (key, value) pairs.
Put(m, k, v) == {p \in m : p[1] # k} \cup {<<k, v>>}

\* Variant of Env: the insecure marker is set whenever ServerInsecure is.
EnvInsecureAlways(c) ==
    LET results0 == {<<"DEVFLOW_DEPLOYMENT_ID", c.Id>>}
        results1 == IF c.ServerAddr = ""
                    THEN Put(results0, "DEVFLOW_SERVER_DISABLE", "1")
                    ELSE Put(results0, "DEVFLOW_SERVER_ADDR", c.ServerAddr)
    IN IF c.ServerInsecure
       THEN Put(results1, "DEVFLOW_SERVER_INSECURE", "1")
       ELSE results1

\* func (c *DeploymentConfig) Env() map[string]string
Env(c) ==
    LET results0 == {<<"DEVFLOW_DEPLOYMENT_ID", c.Id>>}
    IN IF c.ServerAddr = ""
       THEN Put(results0, "DEVFLOW_SERVER_DISABLE", "1")
       ELSE LET results1 == Put(results0, "DEVFLOW_SERVER_ADDR", c.ServerAddr)
            IN IF c.ServerInsecure
               THEN Put(results1, "DEVFLOW_SERVER_INSECURE", "1")
               ELSE results1

\* A caller evaluates c.Env(); Env assigns to no field of c.
CallEnv ==
    /\ env' = Env(cfg)
    /\ envCfg' = cfg
    /\ envCalled' = TRUE
    /\ cfg' = cfg
    /\ UNCHANGED <<clientVars, chanVars, serverVars>>

\* The owner of the configuration sets its fields to other values.
Configure ==
    /\ \E c \in Configs : c # cfg /\ cfg' = c
    /\ UNCHANGED <<env, envCfg, envCalled, clientVars, chanVars, serverVars>>

\* Any configuration, Env not yet called; no restore command is running.
EnvInit ==
    /\ cfg \in Configs
    /\ env = {}
    /\ envCfg = cfg
    /\ envCalled = FALSE
    /\ ClientInit
    /\ args = <<>>
    /\ stdinTerminal = FALSE
    /\ chan = [s \in Sessions |-> <<>>]
    /\ conn = [s \in Sessions |-> "none"]
    /\ ServerInit

EnvNext == CallEnv \/ Configure

EnvSpec == EnvInit /\ [][EnvNext]_vars

(* ---------------------------- observations ----------------------------- *)
\* The bytes of the Chunk events of a sequence of events, in order.
RECURSIVE ChunkBytes(_)
ChunkBytes(evs) ==
    IF evs = <<>> THEN <<>>
    ELSE (IF Head(evs).type = "Chunk" THEN Head(evs).data ELSE <<>>)
         \o ChunkBytes(Tail(evs))

\* Number of events of a type in a sequence of events.
Count(evs, t) == Cardinality({i \in 1..Len(evs) : evs[i].type = t})

IsPrefix(a, b) == Len(a) <= Len(b) /\ a = SubSeq(b, 1, Len(a))

\* What the restore client has sent.
Sent == chan[ClientSession]
SentBytes == ChunkBytes(Sent)
HalfClosed == Count(Sent, "HalfClose") > 0

\* The events of session s the server has received.
Arrived(s) == SubSeq(chan[s], 1, rcv[s])
\* The payload session s has submitted.
Payload(s) == ChunkBytes(Arrived(s))

\* Open first and only once; a half-close, if any, only once and last.
WellOrdered(evs) ==
    /\ \A i \in 1..Len(evs) : evs[i].type = "Open" <=> i = 1
    /\ \A i \in 1..Len(evs) : evs[i].type = "HalfClose" => i = Len(evs)

\* A protocol violation in a sequence of events: a Chunk or half-close
\* before Open, a second Open, or a Chunk after half-close.
Violates(evs) ==
    \E i \in 1..Len(evs) :
        \/ /\ evs[i].type \in {"Chunk", "HalfClose"}
           /\ \A j \in 1..(i - 1) : evs[j].type # "Open"
        \/ /\ evs[i].type = "Open"
           /\ \E j \in 1..(i - 1) : evs[j].type = "Open"
        \/ /\ evs[i].type = "Chunk"
           /\ \E j \in 1..(i - 1) : evs[j].type = "HalfClose"

\* The persisted state is the prior state or the complete payload of a
\* session that committed.
OldOrComplete ==
    \/ persisted = PriorState
    \/ \E s \in Sessions : applied[s] /\ persisted = Payload(s)

(* ------------------------------ claims --------------------------------- *)

\* C1: for a source read without error, the concatenation of the Chunk
\* payloads sent so far is always a prefix of the source bytes, and once the
\* client has half-closed it is the whole source, for every source length.
C1_PayloadsReproduceSource ==
    readErrs = 0 =>
        /\ IsPrefix(SentBytes, SourceBytes(srcLen))
        /\ HalfClosed => SentBytes = SourceBytes(srcLen)

\* C1 witness: a source of exactly two full buffers was sent and half-closed.
C1_Witness ==
    /\ readErrs = 0
    /\ HalfClosed
    /\ srcLen = 2 * BufSize
    /\ SentBytes = SourceBytes(srcLen)

\* C2 as claimed: every session Run drives is well ordered and ends with
\* exactly one half-close and exactly one Result.
C2_Original ==
    /\ WellOrdered(Sent)
    /\ (pc = "done" /\ Sent # <<>>) =>
           /\ Count(Sent, "HalfClose") = 1
           /\ results = 1

\* C2 amended: Open is sent at most once and before anything else, the
\* Chunks carry the source bytes in the order they were read, a half-close
\* is sent at most once and is the last event, at most one Result is
\* received and only after the half-close; a Run that ends without a channel
\* failure has sent exactly one Open and one half-close and has received
\* exactly one Result.
C2_SessionOrder ==
    /\ WellOrdered(Sent)
    /\ SentBytes = SourceBytes(pos - n)
    /\ results <= 1
    /\ results = 1 => HalfClosed
    /\ (pc = "done" /\ opens = 1 /\ ~chanFail) =>
           /\ Count(Sent, "Open") = 1
           /\ Count(Sent, "HalfClose") = 1
           /\ results = 1

\* C2 witness: a finished session with Open, two Chunks, the half-close and
\* the Result.
C2_Witness ==
    /\ pc = "done"
    /\ ~chanFail
    /\ Count(Sent, "Chunk") = 2
    /\ HalfClosed
    /\ results = 1

\* C3 as claimed: after a source read failed with an I/O error the client
\* never half-closes, never prints the success message, and Run returns 1.
C3_ReadErrorAborts ==
    readErrs > 0 =>
        /\ ~HalfClosed
        /\ stdout = <<>>
        /\ pc = "done" => ret = 1

\* C4: once a channel operation has failed Run has returned 1: from then on
\* nothing is read from the source and nothing is sent, and no Run opens a
\* second channel or sends a byte twice.
C4_AbortOnChannelFailure ==
    /\ [](chanFail => (pc = "done" /\ ret = 1))
    /\ [](opens <= 1 /\ SentBytes = SourceBytes(Len(SentBytes)))
    /\ [][chanFail => (Sent' = Sent /\ pos' = pos /\ opens' = opens)]_vars

\* C4 witness: a Chunk send failed after an earlier Chunk had been sent.
C4_Witness ==
    /\ sendFail
    /\ pc = "done"
    /\ ret = 1
    /\ Count(Sent, "Chunk") = 1
    /\ pos < srcLen
    /\ ~HalfClosed

\* The restore succeeded: nothing failed, the whole source was sent and the
\* server reported success.
RestoreSucceeded ==
    /\ readErrs = 0
    /\ ~chanFail
    /\ opens = 1
    /\ SentBytes = SourceBytes(srcLen)
    /\ result = "ok"

\* C5 as claimed: Run returns 0 exactly when the restore succeeded, and 1
\* otherwise.
C5_ExitStatus ==
    pc = "done" =>
        /\ ret \in {0, 1}
        /\ ret = 0 <=> RestoreSucceeded

\* C6: the success message is printed, and 0 returned, only after the
\* half-close and the receipt of a Result that carries no error.
C6_SuccessAfterResult ==
    /\ stdout # <<>> =>
           /\ Len(stdout) = 1
           /\ HalfClosed
           /\ results = 1
           /\ result = "ok"
           /\ outcome[ClientSession] = "success"
           /\ ret = 0
    /\ ret = 0 => stdout # <<>>

\* C6 witness: the success message was printed for a non-empty restore.
C6_Witness ==
    /\ stdout # <<>>
    /\ ret = 0
    /\ persisted = SentBytes

\* C7: a session that ends in Done(error) has applied nothing, the step
\* that ends it leaves the persisted state as it was, and the persisted
\* state is always the old state or a complete payload.
C7_AtomicApply ==
    /\ [](OldOrComplete)
    /\ [](\A s \in Sessions : outcome[s] = "error" => ~applied[s])
    /\ [][\A s \in Sessions :
             (outcome[s] = "none" /\ outcome'[s] = "error")
                 => persisted' = persisted]_vars

\* C7 witness: an apply failed after part of a two-byte payload was staged,
\* and an earlier session's state is still in place.
C7_Witness ==
    \E s, t \in Sessions :
        /\ errKind[s] = "apply"
        /\ Len(Payload(s)) >= 1
        /\ applied[t]
        /\ persisted = Payload(t)

\* C8: as long as the client has not half-closed, and on every path on
\* which it gave up after a failed open or send, the server is not
\* Applying, has applied nothing and the persisted state is the prior one.
C8_AbortDiscards ==
    /\ sendFail => ~HalfClosed
    /\ (sendFail \/ ~HalfClosed) =>
           /\ phase[ClientSession] # "Applying"
           /\ ~applied[ClientSession]
           /\ persisted = PriorState

\* C8 witness: the client gave up after Open and a Chunk, and the server
\* ended the session as aborted.
C8_Witness ==
    /\ sendFail
    /\ Count(Sent, "Chunk") >= 1
    /\ rcv[ClientSession] = Len(Sent)
    /\ phase[ClientSession] = "Done"
    /\ errKind[ClientSession] = "aborted"
    /\ persisted = PriorState

\* C9: a session whose received events contain a protocol violation is
\* Done(error) with a protocol error, has applied nothing, and the persisted
\* state holds nothing of it.
C9_ViolationRejected ==
    \A s \in Sessions :
        Violates(Arrived(s)) =>
            /\ phase[s] = "Done"
            /\ outcome[s] = "error"
            /\ errKind[s] = "protocol"
            /\ ~applied[s]
            /\ \/ persisted = PriorState
               \/ \E t \in Sessions \ {s} : applied[t] /\ persisted = Payload(t)

\* C9 witness: a Chunk arrived after the half-close of a session that was
\* Applying.
C9_Witness ==
    \E s \in Sessions :
        \E i, j \in 1..rcv[s] :
            /\ i < j
            /\ chan[s][i].type = "HalfClose"
            /\ chan[s][j].type = "Chunk"
            /\ Len(Payload(s)) >= 2

\* C10: at most one session is Applying at any time, and the persisted
\* state is the prior state while no session has committed and otherwise
\* the complete payload of one session that committed.
C10_SerializedCommit ==
    /\ Cardinality({s \in Sessions : phase[s] = "Applying"}) <= 1
    /\ (\A s \in Sessions : ~applied[s]) => persisted = PriorState
    /\ (\E s \in Sessions : applied[s]) =>
           \E s \in Sessions : applied[s] /\ persisted = Payload(s)

\* C10 witness: two sessions have both committed.
C10_Witness ==
    /\ applied[1]
    /\ applied[2]
    /\ persisted = Payload(2)

\* The payloads of the Chunk events of a sequence of events.
RECURSIVE ChunkData(_)
ChunkData(evs) ==
    IF evs = <<>> THEN <<>>
    ELSE (IF Head(evs).type = "Chunk" THEN <<Head(evs).data>> ELSE <<>>)
         \o ChunkData(Tail(evs))

\* ceil(a / b)
CeilDiv(a, b) == (a + b - 1) \div b

\* C11: for an empty source the client sends Open and no Chunk, then
\* half-closes; the server goes through Applying on the empty buffer and
\* reports an apply error, and the persisted state stays the prior one.
C11_EmptySource ==
    srcLen = 0 =>
        /\ Count(Sent, "Chunk") = 0
        /\ pc \in {"closeSend", "recv"} => opens = 1
        /\ HalfClosed => Sent = <<OpenEv, HalfCloseEv>>
        /\ pc = "recv" => HalfClosed
        /\ ~applied[ClientSession]
        /\ persisted = PriorState
        /\ ret # 0
        /\ (HalfClosed /\ phase[ClientSession] = "Done") =>
               /\ outcome[ClientSession] = "error"
               /\ errKind[ClientSession] = "apply"

\* C11 witness: an empty source was half-closed without a Chunk and the
\* server's validation error was received.
C11_Witness ==
    /\ r # "nil"
    /\ srcLen = 0
    /\ readErrs = 0
    /\ Sent = <<OpenEv, HalfCloseEv>>
    /\ errKind[ClientSession] = "apply"
    /\ results = 1
    /\ ret = 1

\* C12: every Chunk sent carries between 1 and BufSize bytes, and a buffer
\* is handed to Send only when the read put at least one byte into it.
C12_ChunkSize ==
    /\ \A i \in 1..Len(Sent) :
           Sent[i].type = "Chunk" =>
               (Len(Sent[i].data) >= 1 /\ Len(Sent[i].data) <= BufSize)
    /\ pc \in {"sendChunk", "sendWait"} => (n >= 1 /\ n <= BufSize)

\* C12 witness: a full Chunk and a one-byte Chunk were sent.
C12_Witness ==
    \E i, j \in 1..Len(Sent) :
        /\ Sent[i].type = "Chunk"
        /\ Sent[j].type = "Chunk"
        /\ Len(Sent[i].data) = BufSize
        /\ Len(Sent[j].data) = 1

\* C13: for a source read without error every Chunk but the last carries
\* exactly BufSize bytes, however the source splits its bytes over the
\* underlying reads, and a source of L bytes is sent in ceil(L / BufSize)
\* Chunks.
C13_Batching ==
    readErrs = 0 =>
        LET cs == ChunkData(Sent) IN
        /\ \A i \in 1..(Len(cs) - 1) : Len(cs[i]) = BufSize
        /\ HalfClosed => Len(cs) = CeilDiv(srcLen, BufSize)

\* C13 witness: a source of two buffers and one byte went out in three
\* Chunks.
C13_Witness ==
    /\ readErrs = 0
    /\ HalfClosed
    /\ srcLen = 2 * BufSize + 1
    /\ Len(ChunkData(Sent)) = 3

\* C14: the client runs one sequential loop. At most one Chunk send is in
\* progress at any time, and no read into the shared buffer (no step that
\* changes buf or consumes source bytes) happens while a send is in
\* progress: the next read starts only after the previous send returned, so
\* the bytes of a Chunk that is being sent are never overwritten.
C14_SequentialLoop ==
    /\ [](inflight <= 1)
    /\ [][(buf' # buf \/ pos' # pos \/ n' > n) => inflight = 0]_vars
    /\ [][inflight = 1 /\ inflight' = 0 /\ Len(Sent') > Len(Sent)
            => Sent'[Len(Sent')] = ChunkEv(SubSeq(SourceBytes(srcLen),
                                                   pos - n + 1, pos))]_vars

\* A second send is in progress: the first one returned and the buffer was
\* refilled before it started.
C14_Witness ==
    /\ inflight = 1
    /\ pc = "sendWait"
    /\ Count(Sent, "Chunk") >= 1
    /\ readErrs = 0

\* C15: a file opened by path is closed exactly once on every exit path of
\* Run after the successful open (success or any error), and not before Run
\* returns, hence never before the last read; standard input is never
\* closed, and nothing is closed when no source was selected.
C15_FileClosedOnce ==
    /\ r = "file" => closes = (IF pc = "done" THEN 1 ELSE 0)
    /\ r # "file" => closes = 0
    /\ pc \in {"readFull", "sendChunk", "sendWait", "closeSend", "recv"}
         => closes = 0

\* Run has returned 1 from inside the chunk loop, after reading from a file.
C15_Witness ==
    /\ r = "file"
    /\ pc = "done"
    /\ ret = 1
    /\ pos > 0
    /\ ~HalfClosed
    /\ closes = 1

\* initReader failed: Run reported it.
InitReaderFailed == stderr # <<>> /\ stderr[1] = "failed to open output"

\* C16: source selection.  With first argument "-" the source is standard
\* input whether or not it is a terminal; with any other first argument
\* it is the file of that path, and a failed open is an error; without
\* arguments it is standard input unless that is a terminal, which is an
\* error.  In every error case Run returns 1 and no channel was opened.
C16_SourceSelection ==
    /\ (pc \notin {"init", "initReader"} /\ (r # "nil" \/ InitReaderFailed))
         => /\ (Len(args) >= 1 /\ args[1] = "-") => r = "stdin"
            /\ (Len(args) >= 1 /\ args[1] # "-") => r \in {"file", "nil"}
            /\ (Len(args) = 0 /\ ~stdinTerminal) => r = "stdin"
            /\ (Len(args) = 0 /\ stdinTerminal) => r = "nil"
            /\ r = "nil" => InitReaderFailed
    /\ InitReaderFailed
         => /\ r = "nil"
            /\ pc = "done"
            /\ ret = 1
            /\ opens = 0
            /\ Sent = <<>>
            /\ conn[ClientSession] = "none"
            /\ phase[ClientSession] = "Idle"

\* Standard input is a terminal and no argument was given: Run refused.
C16_Witness ==
    /\ args = <<>>
    /\ stdinTerminal
    /\ InitReaderFailed
    /\ ret = 1
    /\ opens = 0

\* C18: on success the completion message names the file path (the first
\* argument) exactly when the source was a file opened by path, and is the
\* path-less standard-input message exactly when the source was standard
\* input (first argument "-" or no argument); the first argument is never
\* read when the argument list is empty.
C18_CompletionMessage ==
    stdout # <<>> =>
        /\ r \in {"file", "stdin"}
        /\ r = "file" <=> /\ Len(args) >= 1
                          /\ stdout[1] = <<"Server data restored from '%s'.",
                                           args[1]>>
        /\ r = "stdin" <=> stdout[1] = <<"Server data restored.">>
        /\ r = "stdin" <=> (Len(args) = 0 \/ args[1] = "-")
        /\ Len(args) = 0 => Len(stdout[1]) = 1
        /\ \A i \in 1..Len(stdout[1]) :
               stdout[1][i] # "panic: index out of range"

\* A restore from standard input forced by "-" has succeeded.
C18_Witness ==
    /\ stdout = << <<"Server data restored.">> >>
    /\ args = <<"-">>
    /\ r = "stdin"
    /\ ret = 0

\* Every call of Run's steps eventually returns, and the server makes
\* progress.
FairSpec ==
    Spec /\ WF_vars(ClientNext) /\ WF_vars(ServerNext(ClientSession))

\* Run eventually returns, with status 0 or 1.
RunTerminates == <>(pc = "done" /\ ret \in {0, 1})

\* C19: Run returns after at most ceil(L/BufSize)+1 iterations of the chunk
\* loop for a source of L bytes, and the loop cannot spin: every iteration
\* but the one that leaves the loop sends a non-empty Chunk.
C19_BoundedLoop ==
    /\ iters <= CeilDiv(srcLen, BufSize) + 1
    /\ iters <= Count(Sent, "Chunk") + inflight
                  + (IF pc = "sendChunk" THEN 1 ELSE 0) + 1
    /\ pc = "done" => ret \in {0, 1}

\* Keys of a map held as a set of (key, value) pairs.
Keys(m) == {p[1] : p \in m}

\* The map m is what the mapping of configuration c is specified to be.
EnvAsSpecified(c, m) ==
    /\ \A p, q \in m : p[1] = q[1] => p = q
    /\ <<"DEVFLOW_DEPLOYMENT_ID", c.Id>> \in m
    /\ "DEVFLOW_SERVER_DISABLE" \in Keys(m) <=> c.ServerAddr = ""
    /\ "DEVFLOW_SERVER_DISABLE" \in Keys(m)
         => <<"DEVFLOW_SERVER_DISABLE", "1">> \in m
    /\ "DEVFLOW_SERVER_ADDR" \in Keys(m) <=> c.ServerAddr # ""
    /\ "DEVFLOW_SERVER_ADDR" \in Keys(m)
         => <<"DEVFLOW_SERVER_ADDR", c.ServerAddr>> \in m
    /\ "DEVFLOW_SERVER_INSECURE" \in Keys(m)
         <=> (c.ServerAddr # "" /\ c.ServerInsecure)
    /\ "DEVFLOW_SERVER_INSECURE" \in Keys(m)
         => <<"DEVFLOW_SERVER_INSECURE", "1">> \in m
    /\ Keys(m) \subseteq {"DEVFLOW_DEPLOYMENT_ID", "DEVFLOW_SERVER_DISABLE",
                          "DEVFLOW_SERVER_ADDR", "DEVFLOW_SERVER_INSECURE"}

\* C17: for every configuration (Id, ServerAddr, ServerInsecure) the map
\* returned by Env has the deployment-identity key with value Id, exactly
\* one of the server-disabled marker "1" (when ServerAddr is empty) and the
\* server-address key with value ServerAddr (when it is not), the insecure
\* marker "1" exactly when ServerAddr is non-empty and ServerInsecure is
\* true, and no other key; a call leaves the configuration as it was, and
\* a call on the configuration of the previous call returns the same map.
C17_EnvMapping ==
    /\ [](envCalled => EnvAsSpecified(envCfg, env))
    /\ [][(env' # env \/ envCfg' # envCfg \/ envCalled' # envCalled)
            => cfg' = cfg /\ envCfg' = cfg]_vars
    /\ [][(envCalled /\ envCfg' = envCfg) => env' = env]_vars

\* Env was called on a configuration without server address but with
\* ServerInsecure set: the map has the identity and the disabled marker.
C17_Witness ==
    /\ envCalled
    /\ envCfg.Id = "dep-1"
    /\ envCfg.ServerAddr = ""
    /\ envCfg.ServerInsecure
    /\ cfg = envCfg
    /\ env = {<<"DEVFLOW_DEPLOYMENT_ID", "dep-1">>,
              <<"DEVFLOW_SERVER_DISABLE", "1">>}

====
